---- MODULE Spec2Model ----
(***************************************************************************)
(* Model of src/lib/spotify.js: Spotify.getTop100AudioData, the four-stage  *)
(* enrichment pipeline (playlist -> tracklist -> features -> per-track      *)
(* analysis) with its single retry pass.                                    *)
(*                                                                          *)
(* JavaScript values are encoded as follows.                                *)
(*   undefined            the record Undefined                              *)
(*   {}                   the record EmptyObj                               *)
(*   NaN                  the integer NaN (outside the naturals)            *)
(*   a string             a TLA+ string, or a sequence of one-character     *)
(*                        strings where the code parses it (parseInt)       *)
(*   a URL                the sequence of its '/'-separated path segments,  *)
(*                        as String.split('/') of request.path yields them  *)
(* The provider is modelled as well-formed: the track listing holds         *)
(* distinct ids, and the features response is a permutation of the          *)
(* requested ids, each entry carrying its own analysis_url.                 *)
(***************************************************************************)
EXTENDS Integers, Sequences, FiniteSets, TLC

VARIABLES pc, songData, tracks, audio_features, songs, errors, timeout,
          sleepPromise, sinceSleep, retryIssuedAt, retries, residual,
          settled, value, requests, stageResult, genre, playlistItems,
          accessToken, runs, store

vars == <<pc, songData, tracks, audio_features, songs, errors, timeout,
          sleepPromise, sinceSleep, retryIssuedAt, retries, residual,
          settled, value, requests, stageResult, genre, playlistItems,
          accessToken, runs, store>>

(* ---- bounds ---- *)
MaxTracks == 2
MaxElapsed == 1

(* ---- the provider's catalogue and the inputs of the run ---- *)
Catalogue == <<"t1", "t2", "t3">>

GenreInputs == { [type |-> "string", val |-> "caribbean"],
                 [type |-> "string", val |-> ""],
                 [type |-> "number", val |-> "42"],
                 [type |-> "undefined", val |-> "undefined"] }

(* response.data.access_token of the token endpoint *)
AccessTokens == { "BQD" }

RetryAfterHeaders == { <<>>, <<"5">>, <<"1", "2">>, <<"W", "e", "d">> }

FailureStatuses == {429, 500}

(* the non-2xx responses of the provider: a Retry-After header accompanies  *)
(* only the rate-limit status                                               *)
FailureResponses ==
    { [status |-> 429, header |-> h] : h \in RetryAfterHeaders }
        \cup { [status |-> st, header |-> <<>>] : st \in FailureStatuses \ {429} }

(* ---- JavaScript values ---- *)
Undefined == [kind |-> "undefined"]
EmptyObj == [kind |-> "object"]
PendingResult == [kind |-> "pending"]
RejectedResult == [kind |-> "rejected"]
NaN == 0 - 1

Add(a, b) == IF a = NaN \/ b = NaN THEN NaN ELSE a + b
Mul(a, b) == IF a = NaN \/ b = NaN THEN NaN ELSE a * b

Digits == {"0", "1", "2", "3", "4", "5", "6", "7", "8", "9"}

DigitVal(c) ==
    CASE c = "0" -> 0 [] c = "1" -> 1 [] c = "2" -> 2 [] c = "3" -> 3
      [] c = "4" -> 4 [] c = "5" -> 5 [] c = "6" -> 6 [] c = "7" -> 7
      [] c = "8" -> 8 [] c = "9" -> 9

RECURSIVE ParseDigits(_, _, _)
ParseDigits(s, i, acc) ==
    IF i > Len(s) \/ s[i] \notin Digits THEN acc
    ELSE ParseDigits(s, i + 1, acc * 10 + DigitVal(s[i]))

(* parseInt(s): the leading decimal digits of s, NaN when there are none *)
ParseInt(s) ==
    IF Len(s) = 0 \/ s[1] \notin Digits THEN NaN ELSE ParseDigits(s, 1, 0)

(* headers['retry-after'] ? parseInt(headers['retry-after']) : NaN *)
RetryAfter(header) == IF Len(header) > 0 THEN ParseInt(header) ELSE NaN

(* ---- URLs ---- *)
PlaylistUrl(g) == <<"", "v1", "browse", "categories", g, "playlists">>
TracksHref == <<"", "v1", "playlists", "p1", "tracks">>
(* response.data.playlists.items of a category that has collections *)
PlaylistItems == << [tracks |-> [href |-> TracksHref]] >>

AnalysisUrl(id) == <<"", "v1", "audio-analysis", id>>

RECURSIVE JoinIds(_, _)
JoinIds(url, ids) ==
    IF ids = <<>> THEN url
    ELSE JoinIds(url \o <<Head(ids), ",">>, Tail(ids))

(* featureUrl += id + ',' for every item, then featureUrl.slice(0, -1) *)
FeatureUrl(ids) ==
    LET full == JoinIds(<<"", "v1", "audio-features", "?ids", "=">>, ids)
    IN  SubSeq(full, 1, Len(full) - 1)

(* song.request.path.split('/')[3] *)
IdOfPath(path) == path[4]

(* ---- provider payloads ---- *)
TrackItem(id) == [id |-> id, name |-> <<"name", id>>, popularity |-> 50]
FeatureObj(id) == [id |-> id, analysis_url |-> AnalysisUrl(id)]
AnalysisData(path) == [analysisOf |-> path[4]]

Listing(n) == [i \in 1..n |-> TrackItem(Catalogue[i])]

IsPermutation(p, n) ==
    /\ p \in [1..n -> 1..n]
    /\ \A i, j \in 1..n : p[i] = p[j] => i = j

FeatureResponses(items) ==
    { [i \in 1..Len(items) |-> FeatureObj(items[p[i]].id)] :
        p \in { q \in [1..Len(items) -> 1..Len(items)] :
                    IsPermutation(q, Len(items)) } }

(* an Axios response object of an analysis request *)
Response(status, url) ==
    [status |-> status, request |-> [path |-> url], data |-> AnalysisData(url)]

(* the object the catch handler of an analysis request returns *)
FailureRecord(status, url, header) ==
    [status |-> status, url |-> url, timeout |-> RetryAfter(header)]

(* ---- the handlers' computations ---- *)
(* variant: songData is replaced by a one-entry object for every item *)
RECURSIVE BuildSongDataOverwrite(_, _)
BuildSongDataOverwrite(sd, items) ==
    IF items = <<>> THEN sd
    ELSE LET item == Head(items)
             rec  == [name |-> item.name, popularity |-> item.popularity,
                      features |-> Undefined, analysis |-> Undefined]
         IN  BuildSongDataOverwrite([k \in {item.id} |-> rec], Tail(items))

RECURSIVE BuildSongData(_, _)
BuildSongData(sd, items) ==
    IF items = <<>> THEN sd
    ELSE LET item == Head(items)
             rec  == [name |-> item.name, popularity |-> item.popularity,
                      features |-> Undefined, analysis |-> Undefined]
         IN  BuildSongData([k \in DOMAIN sd \cup {item.id} |->
                               IF k = item.id THEN rec ELSE sd[k]],
                           Tail(items))

Ids(items) == [i \in 1..Len(items) |-> items[i].id]

(* variant: features attached by position in the response, onto the keys   *)
(* in insertion (listing) order                                             *)
RECURSIVE AttachFeaturesByPosition(_, _)
AttachFeaturesByPosition(sd, feats) ==
    IF feats = <<>> THEN sd
    ELSE LET key == Catalogue[Cardinality(DOMAIN sd) - Len(feats) + 1]
         IN  AttachFeaturesByPosition([sd EXCEPT ![key].features = Head(feats)],
                                      Tail(feats))

RECURSIVE AttachFeatures(_, _)
AttachFeatures(sd, feats) ==
    IF feats = <<>> THEN sd
    ELSE AttachFeatures([sd EXCEPT ![Head(feats).id].features = Head(feats)],
                        Tail(feats))

IsOk(song) == "status" \in DOMAIN song /\ song.status = 200

Errors(results) == SelectSeq(results, LAMBDA song : song.status # 200)

(* variant: analysis attached by position in the result array, onto the    *)
(* keys in insertion (listing) order                                        *)
RECURSIVE MergeAnalysesByPosition(_, _)
MergeAnalysesByPosition(sd, results) ==
    IF results = <<>> THEN sd
    ELSE LET song == Head(results)
             key  == Catalogue[Cardinality(DOMAIN sd) - Len(results) + 1]
         IN  IF IsOk(song)
             THEN MergeAnalysesByPosition([sd EXCEPT ![key].analysis = song.data],
                                          Tail(results))
             ELSE MergeAnalysesByPosition(sd, Tail(results))

RECURSIVE MergeAnalyses(_, _)
MergeAnalyses(sd, results) ==
    IF results = <<>> THEN sd
    ELSE LET song == Head(results)
         IN  IF IsOk(song)
             THEN MergeAnalyses(
                      [sd EXCEPT ![IdOfPath(song.request.path)].analysis = song.data],
                      Tail(results))
             ELSE MergeAnalyses(sd, Tail(results))

(* variant: the retry branch is taken for an empty failure list too *)
HasErrorsAlways(errs) == Len(errs) >= 0

HasErrors(errs) == Len(errs) > 0

RECURSIVE TimeoutFrom(_, _)
TimeoutFrom(errs, i) ==
    IF i > Len(errs) THEN 0
    ELSE IF errs[i].status = 429 THEN Mul(Add(errs[i].timeout, 2), 1000)
    ELSE TimeoutFrom(errs, i + 1)

(* variant: the scan has no break, so the last 429 record decides *)
RECURSIVE TimeoutNoBreak(_, _, _)
TimeoutNoBreak(errs, i, acc) ==
    IF i > Len(errs) THEN acc
    ELSE IF errs[i].status = 429
         THEN TimeoutNoBreak(errs, i + 1, Mul(Add(errs[i].timeout, 2), 1000))
         ELSE TimeoutNoBreak(errs, i + 1, acc)

ComputeTimeoutNoBreak(errs) == TimeoutNoBreak(errs, 1, 0)

ComputeTimeout(errs) == TimeoutFrom(errs, 1)

(* variant: the promise of sleep is never resolved *)
SleepForever(delay) == "pending"

(* sleep(delay): resolve() is evaluated as the argument of setTimeout, so   *)
(* the promise is resolved when sleep returns, whatever the delay.          *)
Sleep(delay) == "resolved"

(* headers: { Authorization: `Bearer ${this.accessToken}` } *)
Bearer(token) == <<"Bearer", token>>

(* variant: the header is built from the token the instance was constructed *)
(* with                                                                     *)
RequestStaleToken(stage, url) ==
    [stage |-> stage, url |-> url, auth |-> Bearer("")]

Request(stage, url) ==
    [stage |-> stage, url |-> url, auth |-> Bearer(accessToken)]

(* { ..., url: error.url }: a response object kept as a failure has no url  *)
(* property, and the retry request then has none either                     *)
RetryRequest(error) ==
    IF "url" \in DOMAIN error
    THEN Request("retry", error.url)
    ELSE [stage |-> "retry", auth |-> Bearer(accessToken)]

RetryRequests(errs) == [i \in 1..Len(errs) |-> RetryRequest(errs[i])]

(* variant: the counter is incremented for every retry result *)
ResidualCountAll(results) == Len(results)

ResidualCount(results) ==
    Cardinality({ i \in 1..Len(results) : ~IsOk(results[i]) })

(* variant: the i-th retry result is attached to the i-th key of songData  *)
RECURSIVE MergeRetriesAt(_, _, _)
MergeRetriesAt(sd, results, i) ==
    IF i > Len(results) THEN sd
    ELSE IF IsOk(results[i])
         THEN MergeRetriesAt([sd EXCEPT ![Catalogue[i]].analysis = results[i].data],
                             results, i + 1)
         ELSE MergeRetriesAt(sd, results, i + 1)

MergeRetriesByPosition(sd, results) == MergeRetriesAt(sd, results, 1)

RECURSIVE MergeRetries(_, _)
MergeRetries(sd, results) ==
    IF results = <<>> THEN sd
    ELSE LET song == Head(results)
         IN  IF IsOk(song)
             THEN MergeRetries(
                      [sd EXCEPT ![IdOfPath(song.request.path)].analysis = song.data],
                      Tail(results))
             ELSE MergeRetries(sd, Tail(results))

(* ---- state ---- *)
NotCalled == 0 - 1

ErrorOf(what) == [kind |-> "error", of |-> what]
SongDataRef == [kind |-> "ref", to |-> "songData"]

(* the three blocking stages; stageResult is the state of each stage's     *)
(* Axios promise                                                            *)
Stages == {"playlist", "tracklist", "features"}


(* ---- two calls on one instance ---- *)
(* runs[r] is the closure of the r-th call of getTop100AudioData; store[o]  *)
(* is the object o that a call created as its songData.  Every payload is   *)
(* tagged with the run whose request it answers.                            *)
Runs == {1, 2}

RunGenre(r) == IF r = 1 THEN "country" ELSE "jazz"

(* the provider's playlists: the two categories share a track *)
TracksOfGenre(g) == IF g = "country" THEN <<"t1", "t2">> ELSE <<"t2", "t3">>

RunListing(r) ==
    [i \in 1..Len(TracksOfGenre(RunGenre(r))) |->
        TrackItem(TracksOfGenre(RunGenre(r))[i])]

RunFeatureObj(r, id) ==
    [id |-> id, analysis_url |-> AnalysisUrl(id), run |-> r]

RunFeatureResponses(r, items) ==
    { [i \in 1..Len(items) |-> RunFeatureObj(r, items[p[i]].id)] :
        p \in { q \in [1..Len(items) -> 1..Len(items)] :
                    IsPermutation(q, Len(items)) } }

RunResponse(r, status, url) ==
    [status |-> status, request |-> [path |-> url],
     data |-> [analysisOf |-> url[4], run |-> r]]

IdleRun ==
    [pc |-> "idle", obj |-> 0, tracks |-> << >>, feats |-> << >>,
     songs |-> << >>, errors |-> << >>, retries |-> << >>, settled |-> "none"]

(* variant: songData is one object of the instance, shared by its calls *)
SongDataShared(r) == 1

(* const songData = {}: every call creates its own object *)
SongDataOf(r) == r

Init ==
    /\ pc = "idle"
    /\ songData = << >>
    /\ tracks = << >>
    /\ audio_features = << >>
    /\ songs = << >>
    /\ errors = << >>
    /\ timeout = 0
    /\ sleepPromise = "none"
    /\ sinceSleep = NotCalled
    /\ retryIssuedAt = NotCalled
    /\ retries = << >>
    /\ residual = NotCalled
    /\ settled = "none"
    /\ value = Undefined
    /\ requests = << >>
    /\ stageResult = [s \in Stages |-> "none"]
    /\ genre = [type |-> "none", val |-> ""]
    /\ playlistItems = << >>
    /\ accessToken = ""
    /\ runs = [r \in Runs |-> IdleRun]
    /\ store = [o \in Runs |-> << >>]

(* reject(err) of the trailing catch *)
Reject(err) ==
    /\ pc' = "done"
    /\ settled' = "rejected"
    /\ value' = err

(* variant: the typeof check is missing and every argument is interpolated  *)
(* into the playlist url                                                    *)
CallNoCheck ==
    /\ pc = "idle"
    /\ \E g \in GenreInputs :
          /\ genre' = g
          /\ pc' = "playlist"
          /\ settled' = "pending"
          /\ stageResult' = [stageResult EXCEPT !["playlist"] = "pending"]
          /\ requests' = Append(requests, Request("playlist", PlaylistUrl(g.val)))
          /\ UNCHANGED value
    /\ UNCHANGED <<runs, store,
                   accessToken,
                   playlistItems, songData, tracks, audio_features, songs, errors,
                   timeout, sleepPromise, sinceSleep, retryIssuedAt, retries,
                   residual>>

(* getTop100AudioData(genre): the type check and the playlist request *)
Call ==
    /\ pc = "idle"
    /\ \E g \in GenreInputs :
          /\ genre' = g
          /\ IF g.type # "string"
             THEN /\ pc' = "thrown"
                  /\ value' = ErrorOf("parameter")
                  /\ UNCHANGED <<settled, requests, stageResult>>
             ELSE /\ pc' = "playlist"
                  /\ settled' = "pending"
                  /\ stageResult' = [stageResult EXCEPT !["playlist"] = "pending"]
                  /\ requests' = Append(requests, Request("playlist", PlaylistUrl(g.val)))
                  /\ UNCHANGED value
    /\ UNCHANGED <<runs, store,
                   accessToken,
                   playlistItems,
                   songData, tracks, audio_features, songs, errors, timeout,
                   sleepPromise, sinceSleep, retryIssuedAt, retries, residual>>

(* variant: an empty item list is read with optional chaining, and the     *)
(* tracklist request is issued without a url                                *)
PlaylistResponseLenient ==
    /\ pc = "playlist"
    /\ \E outcome \in {"error", "empty", "ok"} :
          CASE outcome = "error" ->
                 /\ stageResult' = [stageResult EXCEPT !["playlist"] = "rejected"]
                 /\ Reject(ErrorOf("playlist"))
                 /\ UNCHANGED <<requests, playlistItems>>
            [] outcome = "empty" ->
                 /\ stageResult' = [stageResult EXCEPT !["playlist"] = "fulfilled",
                                                       !["tracklist"] = "pending"]
                 /\ playlistItems' = << >>
                 /\ pc' = "tracklist"
                 /\ requests' = Append(requests, [stage |-> "tracklist",
                                                  auth |-> Bearer(accessToken)])
                 /\ UNCHANGED <<settled, value>>
            [] outcome = "ok" ->
                 /\ stageResult' = [stageResult EXCEPT !["playlist"] = "fulfilled",
                                                       !["tracklist"] = "pending"]
                 /\ playlistItems' = PlaylistItems
                 /\ pc' = "tracklist"
                 /\ requests' = Append(requests,
                                       Request("tracklist", playlistItems'[1].tracks.href))
                 /\ UNCHANGED <<settled, value>>
    /\ UNCHANGED <<runs, store,
                   accessToken,
                   genre, songData, tracks, audio_features, songs, errors, timeout,
                   sleepPromise, sinceSleep, retryIssuedAt, retries, residual>>

(* the playlist request settles *)
PlaylistResponse ==
    /\ pc = "playlist"
    /\ \E outcome \in {"error", "empty", "ok"} :
          CASE outcome = "error" ->
                 /\ stageResult' = [stageResult EXCEPT !["playlist"] = "rejected"]
                 /\ Reject(ErrorOf("playlist"))
                 /\ UNCHANGED <<requests, playlistItems>>
            [] outcome = "empty" ->
                 (* items[0] is undefined: reading .tracks throws *)
                 /\ stageResult' = [stageResult EXCEPT !["playlist"] = "fulfilled"]
                 /\ playlistItems' = << >>
                 /\ Reject(ErrorOf("TypeError"))
                 /\ UNCHANGED requests
            [] outcome = "ok" ->
                 /\ stageResult' = [stageResult EXCEPT !["playlist"] = "fulfilled",
                                                       !["tracklist"] = "pending"]
                 /\ playlistItems' = PlaylistItems
                 /\ pc' = "tracklist"
                 /\ requests' = Append(requests,
                                       Request("tracklist", playlistItems'[1].tracks.href))
                 /\ UNCHANGED <<settled, value>>
    /\ UNCHANGED <<runs, store,
                   accessToken,
                   genre,
                   songData, tracks, audio_features, songs, errors, timeout,
                   sleepPromise, sinceSleep, retryIssuedAt, retries, residual>>

(* the tracklist request settles *)
TracklistResponse ==
    /\ pc = "tracklist"
    /\ \/ /\ stageResult' = [stageResult EXCEPT !["tracklist"] = "rejected"]
          /\ Reject(ErrorOf("tracklist"))
          /\ UNCHANGED <<songData, tracks, requests>>
       \/ \E n \in 0..MaxTracks :
             /\ stageResult' = [stageResult EXCEPT !["tracklist"] = "fulfilled",
                                                   !["features"] = "pending"]
             /\ tracks' = Listing(n)
             /\ songData' = BuildSongData(songData, tracks')
             /\ requests' = Append(requests, Request("features", FeatureUrl(Ids(tracks'))))
             /\ pc' = "features"
             /\ UNCHANGED <<settled, value>>
    /\ UNCHANGED <<runs, store,
                   accessToken,
                   playlistItems,
                   genre,
                   audio_features, songs, errors, timeout,
                   sleepPromise, sinceSleep, retryIssuedAt, retries, residual>>

(* variant: a failed features request is swallowed and the run goes on to  *)
(* the analysis fan-out                                                     *)
FeaturesResponseNoAbort ==
    /\ pc = "features"
    /\ \E ok \in BOOLEAN, feats \in FeatureResponses(tracks) :
          /\ stageResult' = [stageResult EXCEPT !["features"] =
                                IF ok THEN "fulfilled" ELSE "rejected"]
          /\ audio_features' = feats
          /\ songData' = AttachFeatures(songData, feats)
          /\ requests' = requests \o
                 [i \in 1..Len(feats) |-> Request("analysis", feats[i].analysis_url)]
          /\ songs' = [i \in 1..Len(feats) |-> PendingResult]
          /\ pc' = "analysis"
          /\ UNCHANGED <<settled, value>>
    /\ UNCHANGED <<runs, store,
                   accessToken,
                   playlistItems,
                   genre,
                   tracks, errors, timeout,
                   sleepPromise, sinceSleep, retryIssuedAt, retries, residual>>

AnalysisRequests(feats) ==
    [i \in 1..Len(feats) |-> Request("analysis", feats[i].analysis_url)]

(* the features request settles *)
FeaturesResponse ==
    /\ pc = "features"
    /\ \/ /\ stageResult' = [stageResult EXCEPT !["features"] = "rejected"]
          /\ Reject(ErrorOf("features"))
          /\ UNCHANGED <<songData, audio_features, songs, requests>>
       \/ \E feats \in FeatureResponses(tracks) :
             /\ stageResult' = [stageResult EXCEPT !["features"] = "fulfilled"]
             /\ audio_features' = feats
             /\ songData' = AttachFeatures(songData, feats)
             /\ requests' = requests \o AnalysisRequests(feats)
             /\ songs' = [i \in 1..Len(feats) |-> PendingResult]
             /\ pc' = "analysis"
             /\ UNCHANGED <<settled, value>>
    /\ UNCHANGED <<runs, store,
                   accessToken,
                   playlistItems,
                   genre,
                   tracks, errors, timeout,
                   sleepPromise, sinceSleep, retryIssuedAt, retries, residual>>

(* one analysis request of the initial fan-out settles; its catch handler    *)
(* builds the failure record, and throws when the error has no response      *)
AnalysisResponse ==
    /\ pc \in {"analysis", "done"}
    /\ \E i \in 1..Len(songs) :
          /\ songs[i] = PendingResult
          /\ LET url == audio_features[i].analysis_url
             IN  \/ /\ \E status \in {200, 202} :
                          songs' = [songs EXCEPT ![i] = Response(status, url)]
                    /\ UNCHANGED <<pc, settled, value>>
                 \/ /\ \E resp \in FailureResponses :
                          songs' = [songs EXCEPT ![i] =
                                       FailureRecord(resp.status, url, resp.header)]
                    /\ UNCHANGED <<pc, settled, value>>
                 \/ /\ songs' = [songs EXCEPT ![i] = RejectedResult]
                    /\ IF pc = "analysis"
                       THEN Reject(ErrorOf("TypeError"))
                       ELSE UNCHANGED <<pc, settled, value>>
    /\ UNCHANGED <<runs, store,
                   accessToken,
                   playlistItems,
                   genre,
                   stageResult, songData, tracks, audio_features, errors, timeout,
                   sleepPromise, sinceSleep, retryIssuedAt, retries, residual,
                   requests>>

(* the handler of Promise.all(promises): classification, merge, back-off *)
Classify ==
    /\ pc = "analysis"
    /\ \A i \in 1..Len(songs) : songs[i] # PendingResult
    /\ errors' = Errors(songs)
    /\ songData' = MergeAnalyses(songData, songs)
    /\ IF HasErrors(errors')
       THEN /\ timeout' = ComputeTimeout(errors')
            /\ sleepPromise' = Sleep(timeout')
            /\ sinceSleep' = 0
            /\ pc' = "sleep"
            /\ UNCHANGED <<settled, value>>
       ELSE /\ settled' = "resolved"
            /\ value' = SongDataRef
            /\ pc' = "done"
            /\ UNCHANGED <<timeout, sleepPromise, sinceSleep>>
    /\ UNCHANGED <<runs, store,
                   accessToken,
                   playlistItems,
                   genre,
                   stageResult, tracks, audio_features, songs, retryIssuedAt, retries,
                   residual, requests>>

(* the handler of sleep(timeout): one retry request per failure record; a   *)
(* request without a url is rejected by the transport without being sent    *)
IssueRetries ==
    /\ pc = "sleep"
    /\ sleepPromise = "resolved"
    /\ requests' = requests \o RetryRequests(errors)
    /\ retries' = [i \in 1..Len(errors) |->
                      IF "url" \in DOMAIN errors[i] THEN PendingResult ELSE EmptyObj]
    /\ retryIssuedAt' = sinceSleep
    /\ pc' = "retry"
    /\ UNCHANGED <<runs, store,
                   accessToken,
                   playlistItems,
                   genre,
                   stageResult, songData, tracks, audio_features, songs, errors, timeout,
                   sleepPromise, sinceSleep, residual, settled, value>>

(* one retry request settles; its catch handler returns {} *)
RetryResponse ==
    /\ pc = "retry"
    /\ \E i \in 1..Len(retries) :
          /\ retries[i] = PendingResult
          /\ \/ \E status \in {200, 202} :
                   retries' = [retries EXCEPT ![i] = Response(status, errors[i].url)]
             \/ retries' = [retries EXCEPT ![i] = EmptyObj]
    /\ UNCHANGED <<runs, store,
                   accessToken,
                   playlistItems,
                   genre,
                   stageResult, pc, songData, tracks, audio_features, songs, errors, timeout,
                   sleepPromise, sinceSleep, retryIssuedAt, residual, settled,
                   value, requests>>

(* variant: the retries are raced, the handler runs when the first settles *)
RetryMergeEarly ==
    /\ pc = "retry"
    /\ \/ retries = << >>
       \/ \E i \in 1..Len(retries) : retries[i] # PendingResult
    /\ songData' = MergeRetries(songData, retries)
    /\ residual' = ResidualCount(retries)
    /\ settled' = "resolved"
    /\ value' = SongDataRef
    /\ pc' = "done"
    /\ UNCHANGED <<runs, store,
                   accessToken,
                   genre, playlistItems, stageResult, tracks, audio_features, songs,
                   errors, timeout, sleepPromise, sinceSleep, retryIssuedAt, retries,
                   requests>>

(* the handler of Promise.all of the retries: merge, count, resolve *)
RetryMerge ==
    /\ pc = "retry"
    /\ \A i \in 1..Len(retries) : retries[i] # PendingResult
    /\ songData' = MergeRetries(songData, retries)
    /\ residual' = ResidualCount(retries)
    /\ settled' = "resolved"
    /\ value' = SongDataRef
    /\ pc' = "done"
    /\ UNCHANGED <<runs, store,
                   accessToken,
                   playlistItems,
                   genre,
                   stageResult, tracks, audio_features, songs, errors, timeout,
                   sleepPromise, sinceSleep, retryIssuedAt, retries, requests>>

(* time passes while the run waits for retry responses *)
Tick ==
    /\ pc = "retry"
    /\ \E i \in 1..Len(retries) : retries[i] = PendingResult
    /\ sinceSleep < MaxElapsed * 1000
    /\ sinceSleep' = sinceSleep + 1000
    /\ UNCHANGED <<runs, store,
                   accessToken,
                   playlistItems,
                   genre,
                   stageResult, pc, songData, tracks, audio_features, songs, errors, timeout,
                   sleepPromise, retryIssuedAt, retries, residual, settled,
                   value, requests>>

Next ==
    \/ Call
    \/ PlaylistResponse
    \/ TracklistResponse
    \/ FeaturesResponse
    \/ AnalysisResponse
    \/ Classify
    \/ IssueRetries
    \/ RetryResponse
    \/ RetryMerge
    \/ Tick

Spec == Init /\ [][Next]_vars

(* authorize(clientId, clientSecret) completing while the run is in flight: *)
(* the token request succeeds and the handler stores the token of the       *)
(* response.  (A failed token request, and a response with the token        *)
(* already stored, change no state.)                                        *)
AuthorizeResponse ==
    /\ settled = "pending"
    /\ \E token \in AccessTokens \ {accessToken} : accessToken' = token
    /\ UNCHANGED <<runs, store,
                   pc, songData, tracks, audio_features, songs, errors, timeout,
                   sleepPromise, sinceSleep, retryIssuedAt, retries, residual,
                   settled, value, requests, stageResult, genre, playlistItems>>

(* the run together with authorize calls on the same instance *)
SpecAuth == Init /\ [][Next \/ AuthorizeResponse]_vars

(* Every issued request completes, and the event loop runs every handler    *)
(* that is ready; nothing is assumed about new calls or the passage of time. *)
Fairness ==
    /\ WF_vars(PlaylistResponse)
    /\ WF_vars(TracklistResponse)
    /\ WF_vars(FeaturesResponse)
    /\ WF_vars(AnalysisResponse)
    /\ WF_vars(Classify)
    /\ WF_vars(IssueRetries)
    /\ WF_vars(RetryResponse)
    /\ WF_vars(RetryMerge)

LiveSpec == Spec /\ Fairness

mainVars == <<pc, songData, tracks, audio_features, songs, errors, timeout,
              sleepPromise, sinceSleep, retryIssuedAt, retries, residual,
              settled, value, requests, stageResult, genre, playlistItems,
              accessToken>>

RunReject(r) ==
    runs' = [runs EXCEPT ![r].pc = "done", ![r].settled = "rejected"]

(* a call: the new songData object and the playlist request *)
RunsCall ==
    /\ \E r \in Runs :
          /\ runs[r].pc = "idle"
          /\ runs' = [runs EXCEPT ![r].pc = "playlist",
                                  ![r].obj = SongDataOf(r),
                                  ![r].settled = "pending"]
          /\ store' = [store EXCEPT ![SongDataOf(r)] = << >>]
    /\ UNCHANGED mainVars

RunsPlaylistResponse ==
    /\ \E r \in Runs :
          /\ runs[r].pc = "playlist"
          /\ \/ RunReject(r)
             \/ runs' = [runs EXCEPT ![r].pc = "tracklist"]
    /\ UNCHANGED <<store, mainVars>>

RunsTracklistResponse ==
    /\ \E r \in Runs :
          /\ runs[r].pc = "tracklist"
          /\ \/ /\ RunReject(r)
                /\ UNCHANGED store
             \/ /\ runs' = [runs EXCEPT ![r].pc = "features",
                                        ![r].tracks = RunListing(r)]
                /\ store' = [store EXCEPT ![runs[r].obj] =
                                 BuildSongData(store[runs[r].obj], RunListing(r))]
    /\ UNCHANGED mainVars

RunsFeaturesResponse ==
    /\ \E r \in Runs :
          /\ runs[r].pc = "features"
          /\ \/ /\ RunReject(r)
                /\ UNCHANGED store
             \/ \E feats \in RunFeatureResponses(r, runs[r].tracks) :
                   /\ runs' = [runs EXCEPT ![r].pc = "analysis",
                                           ![r].feats = feats,
                                           ![r].songs =
                                               [i \in 1..Len(feats) |-> PendingResult]]
                   /\ store' = [store EXCEPT ![runs[r].obj] =
                                    AttachFeatures(store[runs[r].obj], feats)]
    /\ UNCHANGED mainVars

RunsAnalysisResponse ==
    /\ \E r \in Runs : \E i \in 1..Len(runs[r].songs) :
          /\ runs[r].pc \in {"analysis", "done"}
          /\ runs[r].songs[i] = PendingResult
          /\ LET url == runs[r].feats[i].analysis_url
             IN  \/ runs' = [runs EXCEPT ![r].songs[i] = RunResponse(r, 200, url)]
                 \/ runs' = [runs EXCEPT ![r].songs[i] = FailureRecord(500, url, <<>>)]
                 \/ IF runs[r].pc = "analysis"
                    THEN runs' = [runs EXCEPT ![r].songs[i] = RejectedResult,
                                             ![r].pc = "done",
                                             ![r].settled = "rejected"]
                    ELSE runs' = [runs EXCEPT ![r].songs[i] = RejectedResult]
    /\ UNCHANGED <<store, mainVars>>

RunsClassify ==
    /\ \E r \in Runs :
          /\ runs[r].pc = "analysis"
          /\ \A i \in 1..Len(runs[r].songs) : runs[r].songs[i] # PendingResult
          /\ store' = [store EXCEPT ![runs[r].obj] =
                           MergeAnalyses(store[runs[r].obj], runs[r].songs)]
          /\ IF HasErrors(Errors(runs[r].songs))
             THEN runs' = [runs EXCEPT ![r].pc = "sleep",
                                      ![r].errors = Errors(runs[r].songs)]
             ELSE runs' = [runs EXCEPT ![r].pc = "done",
                                      ![r].settled = "resolved"]
    /\ UNCHANGED mainVars

RunsIssueRetries ==
    /\ \E r \in Runs :
          /\ runs[r].pc = "sleep"
          /\ Sleep(ComputeTimeout(runs[r].errors)) = "resolved"
          /\ runs' = [runs EXCEPT ![r].pc = "retry",
                                  ![r].retries =
                                      [i \in 1..Len(runs[r].errors) |-> PendingResult]]
    /\ UNCHANGED <<store, mainVars>>

RunsRetryResponse ==
    /\ \E r \in Runs : \E i \in 1..Len(runs[r].retries) :
          /\ runs[r].pc = "retry"
          /\ runs[r].retries[i] = PendingResult
          /\ \/ runs' = [runs EXCEPT ![r].retries[i] =
                                        RunResponse(r, 200, runs[r].errors[i].url)]
             \/ runs' = [runs EXCEPT ![r].retries[i] = EmptyObj]
    /\ UNCHANGED <<store, mainVars>>

RunsRetryMerge ==
    /\ \E r \in Runs :
          /\ runs[r].pc = "retry"
          /\ \A i \in 1..Len(runs[r].retries) : runs[r].retries[i] # PendingResult
          /\ store' = [store EXCEPT ![runs[r].obj] =
                           MergeRetries(store[runs[r].obj], runs[r].retries)]
          /\ runs' = [runs EXCEPT ![r].pc = "done", ![r].settled = "resolved"]
    /\ UNCHANGED mainVars

NextRuns ==
    \/ RunsCall
    \/ RunsPlaylistResponse
    \/ RunsTracklistResponse
    \/ RunsFeaturesResponse
    \/ RunsAnalysisResponse
    \/ RunsClassify
    \/ RunsIssueRetries
    \/ RunsRetryResponse
    \/ RunsRetryMerge

(* two calls of getTop100AudioData in flight on one Spotify instance *)
SpecRuns == Init /\ [][NextRuns]_vars

(* ======================= properties ======================= *)

StagesAfter(stage) ==
    CASE stage = "playlist" -> {"tracklist", "features", "analysis", "retry"}
      [] stage = "tracklist" -> {"features", "analysis", "retry"}
      [] stage = "features" -> {"analysis", "retry"}

Issued(stage) == { i \in 1..Len(requests) : requests[i].stage = stage }

(* C1: once the features request has succeeded, the returned promise never  *)
(* rejects, whatever the outcomes of the analysis requests and the retries. *)
C1_NeverRejectsAfterFeatures ==
    stageResult["features"] = "fulfilled" => settled # "rejected"

(* C2: when the playlist, tracklist or features request fails, the          *)
(* operation rejects with that error and no request of a later stage is     *)
(* issued.                                                                  *)
C2_FatalAbort ==
    \A stage \in Stages :
        stageResult[stage] = "rejected" =>
            /\ settled = "rejected"
            /\ value = ErrorOf(stage)
            /\ \A later \in StagesAfter(stage) : Issued(later) = {}

C2_Witness ==
    /\ stageResult["features"] = "rejected"
    /\ Len(tracks) = MaxTracks
    /\ pc = "done"

(* C3: whatever the order of completion of the analysis responses, an       *)
(* analysis payload is attached only to the record of the track whose       *)
(* analysis was requested.                                                  *)
C3_AnalysisOnMatchingId ==
    \A k \in DOMAIN songData :
        songData[k].analysis # Undefined =>
            songData[k].analysis = AnalysisData(AnalysisUrl(k))

C3_Witness ==
    /\ settled = "resolved"
    /\ Len(audio_features) >= 2
    /\ audio_features[1].id # tracks[1].id
    /\ IsOk(songs[1])
    /\ ~IsOk(songs[2])
    /\ IsOk(retries[1])
    /\ \A k \in DOMAIN songData : songData[k].analysis # Undefined

(* C4: each feature object of the features response is attached to the      *)
(* record whose key is the feature object's own id, whatever its position   *)
(* in the response.                                                         *)
C4_FeaturesOnMatchingId ==
    /\ \A k \in DOMAIN songData :
          songData[k].features # Undefined => songData[k].features.id = k
    /\ stageResult["features"] = "fulfilled" =>
          \A i \in 1..Len(audio_features) :
              songData[audio_features[i].id].features = audio_features[i]

C4_Witness ==
    /\ stageResult["features"] = "fulfilled"
    /\ Len(audio_features) >= 2
    /\ audio_features[1].id # tracks[1].id
    /\ songData[audio_features[1].id].features = audio_features[1]

SleepCalled == sleepPromise # "none"

RateLimited == { i \in 1..Len(errors) : errors[i].status = 429 }

First429 == CHOOSE i \in RateLimited : \A j \in RateLimited : i <= j

(* C5: the back-off delay is (retryAfterSeconds + 2) seconds of the first   *)
(* failure record with status 429, and 0 when no failure record has status  *)
(* 429; later 429 records do not change it.  (The record without a          *)
(* rate-limit header is the case of C6.)                                    *)
C5_DelayFromFirst429 ==
    SleepCalled =>
        IF RateLimited = {} THEN timeout = 0
        ELSE errors[First429].timeout # NaN =>
                 timeout = (errors[First429].timeout + 2) * 1000

C5_Witness ==
    /\ SleepCalled
    /\ Cardinality(RateLimited) >= 2
    /\ \E j \in RateLimited :
          /\ j > First429
          /\ errors[j].timeout # NaN
          /\ errors[j].timeout > errors[First429].timeout
    /\ errors[First429].timeout = 5
    /\ timeout = 7000

(* C6: when the first 429 failure record has no rate-limit header, the      *)
(* retry-after is taken as 0 and the back-off delay is exactly 2 seconds.   *)
C6_UnknownRetryAfterIsZero ==
    (SleepCalled /\ RateLimited # {} /\ errors[First429].timeout = NaN) =>
        timeout = 2000

(* C7: no retry request is issued before the back-off delay has elapsed     *)
(* since the failures were collected.                                       *)
C7_RetryAfterDelay ==
    (retryIssuedAt # NotCalled /\ timeout # NaN) => retryIssuedAt >= timeout

AnalysisPositions == 1..Len(songs)

RequestsTo(url) ==
    Cardinality({ i \in 1..Len(requests) :
                    /\ requests[i].stage \in {"analysis", "retry"}
                    /\ "url" \in DOMAIN requests[i]
                    /\ requests[i].url = url })

(* C8: exactly one retry pass: every failed analysis request is re-issued   *)
(* exactly once, no request that returned 200 is re-issued, and no analysis *)
(* URL is requested more than twice.                                        *)
C8_ExactlyOneRetryPass ==
    /\ \A i \in AnalysisPositions :
          RequestsTo(audio_features[i].analysis_url) <= 2
    /\ retryIssuedAt # NotCalled =>
          \A i \in AnalysisPositions :
              RequestsTo(audio_features[i].analysis_url) =
                  IF songs[i].status = 200 THEN 1 ELSE 2

FailedPositions == { j \in AnalysisPositions : ~IsOk(songs[j]) }

(* the position in the fan-out of the i-th failure record *)
PositionOfError(i) ==
    CHOOSE j \in FailedPositions :
        Cardinality({ k \in FailedPositions : k <= j }) = i

TrackOfError(i) == audio_features[PositionOfError(i)].id

RetryFailed(i) ==
    \/ retries[i] = EmptyObj
    \/ "status" \in DOMAIN retries[i] /\ retries[i].status # 200

(* C9: when the retry fails for N of the retried URLs, the reported         *)
(* residual count is N, each of these N tracks has no analysis in the final *)
(* ResultSet, and every track whose retry returned 200 has its analysis.    *)
C9_ResidualAccounting ==
    (settled = "resolved" /\ retryIssuedAt # NotCalled) =>
        /\ residual = Cardinality({ i \in 1..Len(retries) : RetryFailed(i) })
        /\ \A i \in 1..Len(retries) :
              IF RetryFailed(i)
              THEN songData[TrackOfError(i)].analysis = Undefined
              ELSE songData[TrackOfError(i)].analysis =
                       AnalysisData(AnalysisUrl(TrackOfError(i)))

C9_Witness ==
    /\ settled = "resolved"
    /\ Len(retries) >= 2
    /\ residual = 1
    /\ \E i \in 1..Len(retries) : ~RetryFailed(i)

ExpectedRecord(k) ==
    [name |-> TrackItem(k).name, popularity |-> TrackItem(k).popularity,
     features |-> FeatureObj(k), analysis |-> AnalysisData(AnalysisUrl(k))]

(* C10: when the initial fan-out reports no failure, no sleep is performed, *)
(* no retry request is issued, and the operation resolves with the          *)
(* ResultSet as the initial analysis merge left it.                         *)
C10_EmptyFailureFastPath ==
    (pc = "done" /\ stageResult["features"] = "fulfilled"
        /\ \A i \in AnalysisPositions : IsOk(songs[i])) =>
        /\ sleepPromise = "none"
        /\ Issued("retry") = {}
        /\ residual = NotCalled
        /\ settled = "resolved"
        /\ value = SongDataRef
        /\ songData = [k \in { tracks[i].id : i \in 1..Len(tracks) } |->
                          ExpectedRecord(k)]

C10_Witness ==
    /\ pc = "done"
    /\ settled = "resolved"
    /\ Len(songs) >= 2
    /\ \A i \in AnalysisPositions : IsOk(songs[i])

(* the analysis request at position i failed without an HTTP response: its  *)
(* catch handler threw instead of returning a failure record                *)
NetworkFailed(i) == songs[i] = RejectedResult

(* C11: a network-level failure of an analysis request of the initial       *)
(* fan-out is collected as a failure record for the retry pass and never    *)
(* makes the operation reject.                                              *)
C11_NetworkFailureCollected ==
    \A i \in AnalysisPositions :
        NetworkFailed(i) =>
            /\ settled # "rejected"
            /\ pc \in {"sleep", "retry", "done"} => Len(errors) >= 1

Called == pc # "idle"

NonEmptyString(g) == g.type = "string" /\ g.val # ""

C17_EmptyCategoryRejects ==
    (stageResult["playlist"] = "fulfilled" /\ playlistItems = << >>) =>
        /\ settled = "rejected"
        /\ pc = "done"
        /\ \A later \in StagesAfter("playlist") : Issued(later) = {}

C17_Witness ==
    /\ stageResult["playlist"] = "fulfilled"
    /\ playlistItems = << >>
    /\ settled = "rejected"
    /\ value = ErrorOf("TypeError")

ListingIds == { tracks[i].id : i \in 1..Len(tracks) }

ItemOf(k) == tracks[CHOOSE i \in 1..Len(tracks) : tracks[i].id = k]

FeatureOf(k) ==
    audio_features[CHOOSE i \in 1..Len(audio_features) : audio_features[i].id = k]

PositionOf(k) == CHOOSE i \in 1..Len(audio_features) : audio_features[i].id = k

RetryOkFor(k) ==
    { e \in 1..Len(retries) : PositionOfError(e) = PositionOf(k) /\ IsOk(retries[e]) }

(* the analysis the upstream responses determine for track k *)
AnalysisFromResponses(k) ==
    IF IsOk(songs[PositionOf(k)]) THEN songs[PositionOf(k)].data
    ELSE IF RetryOkFor(k) # {} THEN retries[CHOOSE e \in RetryOkFor(k) : TRUE].data
    ELSE Undefined

(* C13: the final ResultSet is a function of the upstream responses alone:  *)
(* two runs with identical responses resolve with identical ResultSets,     *)
(* whatever the order in which the analysis and retry requests complete.    *)
C13_ResultDeterminedByResponses ==
    settled = "resolved" =>
        songData = [k \in ListingIds |->
                       [name |-> ItemOf(k).name,
                        popularity |-> ItemOf(k).popularity,
                        features |-> FeatureOf(k),
                        analysis |-> AnalysisFromResponses(k)]]

C13_Witness ==
    /\ settled = "resolved"
    /\ Len(audio_features) >= 2
    /\ audio_features[1].id # tracks[1].id
    /\ ~IsOk(songs[1])
    /\ IsOk(songs[2])
    /\ IsOk(retries[1])

RetryRequestOf(i) == requests[Len(requests) - Len(errors) + i]

(* C14: every failure record of the initial fan-out, the one made from a    *)
(* resolved non-200 response included, carries the URL of its request, and  *)
(* its retry request is sent to that URL.                                   *)
C14_FailureRecordsCarryUrl ==
    \A i \in 1..Len(errors) :
        /\ "url" \in DOMAIN errors[i]
        /\ errors[i].url = audio_features[PositionOfError(i)].analysis_url
        /\ retryIssuedAt # NotCalled =>
              /\ "url" \in DOMAIN RetryRequestOf(i)
              /\ RetryRequestOf(i).url = audio_features[PositionOfError(i)].analysis_url

(* C15: the keys of the ResultSet are always ids of the track listing; from *)
(* the listing stage on there is exactly one entry per listed track, and    *)
(* the features, analysis and retry stages add and remove none.             *)
C15_KeysAreListingIds ==
    /\ DOMAIN songData \subseteq ListingIds
    /\ stageResult["tracklist"] = "fulfilled" =>
          /\ DOMAIN songData = ListingIds
          /\ Cardinality(DOMAIN songData) = Len(tracks)

C15_Witness ==
    /\ settled = "resolved"
    /\ residual # NotCalled
    /\ Len(tracks) >= 2
    /\ DOMAIN songData = ListingIds

AllCompleted ==
    /\ \A i \in 1..Len(songs) : songs[i] # PendingResult
    /\ \A i \in 1..Len(retries) : retries[i] # PendingResult

(* C16: the promise settles with the ResultSet only after every initial     *)
(* analysis request and every retry request has completed, and the          *)
(* ResultSet is not written after it has been returned.                     *)
C16_SettlesAfterAllCompleted ==
    /\ [](settled = "resolved" => AllCompleted)
    /\ [][settled = "resolved" => songData' = songData]_vars

C16_Witness ==
    /\ settled = "resolved"
    /\ Len(retries) >= 2
    /\ AllCompleted

Settled == settled \in {"resolved", "rejected"}

(* C20: provided every issued request completes, every call with a string   *)
(* category eventually settles, and it settles once: a settled promise      *)
(* keeps its state and its value.                                           *)
C20_SettlesExactlyOnce ==
    /\ (settled = "pending") ~> Settled
    /\ [][Settled => (settled' = settled /\ value' = value)]_vars

C20_Witness ==
    /\ settled = "resolved"
    /\ Len(retries) >= 1
    /\ residual = 0

(* C18 (as claimed): every request of the run carries the same bearer       *)
(* token, the one stored when the run started, even when authorize          *)
(* completes while the run is in flight.                                    *)
C18_SameTokenThroughout ==
    \A i \in 1..Len(requests) : requests[i].auth = requests[1].auth

(* C18 (amended): every request carries the token stored on the instance at *)
(* the moment the request is built; requests already issued are not         *)
(* changed.                                                                 *)
C18_TokenAtBuildTime ==
    [][ /\ Len(requests') >= Len(requests)
        /\ \A i \in 1..Len(requests') :
              IF i <= Len(requests)
              THEN requests'[i] = requests[i]
              ELSE requests'[i].auth = Bearer(accessToken) ]_vars

C18_Witness ==
    /\ Len(requests) >= 2
    /\ accessToken \in AccessTokens
    /\ requests[1].auth = Bearer("")
    /\ requests[Len(requests)].auth = Bearer(accessToken)
    /\ requests[Len(requests)].stage = "retry"

RunIds(r) == { runs[r].tracks[i].id : i \in 1..Len(runs[r].tracks) }

ResultSetOf(r) == store[runs[r].obj]

(* C19: two runs in flight on one instance never write into each other's    *)
(* ResultSet: under every interleaving each run's ResultSet holds only ids  *)
(* of its own listing and features and analyses answered to its own         *)
(* requests.                                                                *)
C19_RunsDoNotShareResults ==
    \A r \in Runs :
        runs[r].pc # "idle" =>
            /\ DOMAIN ResultSetOf(r) \subseteq RunIds(r)
            /\ \A k \in DOMAIN ResultSetOf(r) :
                  /\ ResultSetOf(r)[k].features # Undefined =>
                        ResultSetOf(r)[k].features.run = r
                  /\ ResultSetOf(r)[k].analysis # Undefined =>
                        ResultSetOf(r)[k].analysis.run = r

C19_Witness ==
    /\ \A r \in Runs : runs[r].settled = "resolved"
    /\ \A r \in Runs : ResultSetOf(r)["t2"].analysis # Undefined
    /\ \E r \in Runs : Len(runs[r].retries) >= 1
    /\ ResultSetOf(1)["t2"].analysis.run = 1
    /\ ResultSetOf(2)["t2"].analysis.run = 2

====
